---- MODULE Spec2Model ----
(***************************************************************************)
(* Email-subscription lifecycle of the Royavalet back office:              *)
(* routes/emailRoutes.js (validators), controllers (subscribeEmail,        *)
(* unsubscribeEmail, updateSubscription, deleteSubscription) and the       *)
(* EmailSubscription schema of models/Contact.js (defaults, unique index,  *)
(* pre-save hook).  The store is a map from document id to document.       *)
(***************************************************************************)
EXTENDS Integers, Sequences, FiniteSets, TLC

\* ------------------------------------------------------------------ bounds
\* The clock ticks once per handled request; no request starts at MaxTime.
MaxTime == 5

\* ------------------------------------------------------- schema constants
NullDate == 0
NoId == 0
NullString == "null"
Absent == "absent"

StatusEnum == {"active", "unsubscribed", "bounced", "complained"}
SourceEnum == {"website-footer", "website-popup", "manual", "import"}
PrefKeys == {"newsletters", "promotions", "updates", "events"}
DefaultPreferences == [k \in PrefKeys |-> TRUE]
DefaultSource == "website-footer"
DefaultReason == "User requested"

\* ------------------------------------------------------------ input sets
\* Request bodies as they arrive, before any validator or sanitizer ran.
EmailInputs == {"a@x.com", "A@x.com", "b@x.com", "c@x.info", "not-an-email"}
NoPrefs == [k \in PrefKeys |-> Absent]
OnlyNewsletters == [NoPrefs EXCEPT !["newsletters"] = "false"]
AllButNewsletters ==
  [NoPrefs EXCEPT !["promotions"] = "false", !["updates"] = "true",
                  !["events"] = "false"]
Curl == [ipAddress |-> "10.0.0.1", userAgent |-> "curl", referrer |-> NullString]
Firefox == [ipAddress |-> "10.0.0.2", userAgent |-> "firefox", referrer |-> "home"]
\* { source, preferences } of POST /subscribe with the client's headers
SubscribeBodies ==
  { [source |-> Absent, prefs |-> NoPrefs, client |-> Curl],
    [source |-> "manual", prefs |-> OnlyNewsletters, client |-> Firefox],
    [source |-> Absent, prefs |-> AllButNewsletters, client |-> Firefox],
    [source |-> "bogus", prefs |-> NoPrefs, client |-> Curl] }
ReasonInputs == {Absent, "", "  ", " spam "}
NoTags == [given |-> FALSE, value |-> <<>>]
Vip == [given |-> TRUE, value |-> <<"vip">>]
\* { status, preferences, tags } of PUT /subscription/:id
UpdateBodies ==
  { [status |-> st, prefs |-> NoPrefs, tags |-> NoTags] :
      st \in StatusEnum \cup {Absent, "bogus"} }
  \cup { [status |-> Absent, prefs |-> OnlyNewsletters, tags |-> Vip],
         [status |-> "unsubscribed", prefs |-> AllButNewsletters, tags |-> NoTags] }

\* ------------------------------------------------- validators, sanitizers
\* validator's isEmail: an address with a local part, one @ and a domain
\* whose last label is alphabetic with at least two letters.
IsEmail(e) == e \in {"a@x.com", "A@x.com", "b@x.com", "c@x.info"}

\* String.prototype.toLowerCase on the inputs above.
Lower(e) == IF e = "A@x.com" THEN "a@x.com" ELSE e

\* validator's normalizeEmail: lowercases the whole address (no provider
\* rule applies to the domains above).
NormalizeEmail(e) == Lower(e)

\* The schema's match: /^\w+([.-]?\w+)*@\w+([.-]?\w+)*(\.\w{2,3})+$/ .  The
\* address must end in a dot followed by two or three word characters, so
\* a four-letter last label (x.info) does not match.
MatchesEmailPattern(e) == e \in {"a@x.com", "A@x.com", "b@x.com"}

\* validator's trim on the inputs above.
Trim(s) == IF s = "  " THEN "" ELSE IF s = " spam " THEN "spam" ELSE s

\* validateEmailSubscription, as subscribeEmail reads it with
\* validationResult: email isEmail, source optional and in the enum.
ValidSubscription(r) ==
  /\ IsEmail(r.email)
  /\ (r.source = Absent \/ r.source \in SourceEnum)

\* { ...old, ...given } followed by the schema's Boolean cast.
MergePreferences(old, given) ==
  [k \in PrefKeys |-> IF given[k] = Absent THEN old[k] ELSE given[k] = "true"]

\* Object.keys(preferences).length > 0
HasKeys(given) == \E k \in PrefKeys : given[k] # Absent

\* ------------------------------------------------------------ the schema
Fields ==
  {"email", "status", "source", "subscriptionDate", "unsubscriptionDate",
   "unsubscriptionReason", "preferences", "metadata", "tags", "isVerified",
   "verifiedAt", "createdAt", "updatedAt"}

Metadata(client) ==
  [ipAddress |-> client.ipAddress, userAgent |-> client.userAgent,
   referrer |-> client.referrer, country |-> NullString, city |-> NullString]

\* new EmailSubscription({...}) of subscribeEmail with the schema defaults.
NewSubscription(email, source, given, client, t) ==
  [email |-> Lower(email), status |-> "active", source |-> source,
   subscriptionDate |-> t, unsubscriptionDate |-> NullDate,
   unsubscriptionReason |-> NullString,
   preferences |-> MergePreferences(DefaultPreferences, given),
   metadata |-> Metadata(client), tags |-> <<>>,
   isVerified |-> TRUE, verifiedAt |-> t, createdAt |-> t, updatedAt |-> t]

\* ---------------------------------------------------------------- store
\* findOne({ email }): the query value runs through the schema's lowercase
\* setter; the first matching document, or none.
FindOne(store, email) ==
  LET hit == {i \in DOMAIN store : store[i].email = Lower(email)}
  IN IF hit = {} THEN NoId ELSE CHOOSE i \in hit : \A j \in hit : i <= j

\* findById
FindById(store, id) == IF id \in DOMAIN store THEN id ELSE NoId

\* The unique index on email: an insert of a second document with a stored
\* email is rejected (duplicate key).
\* Faulty variant: the index is not unique.
DuplicateKeyMutant(store, email) == FALSE
DuplicateKey(store, email) == \E i \in DOMAIN store : store[i].email = email

\* Schema validation of the paths of a document that are being written.
ValidPaths(doc, paths) ==
  /\ ("email" \in paths => MatchesEmailPattern(doc.email))
  /\ ("status" \in paths => doc.status \in StatusEnum)
  /\ ("source" \in paths => doc.source \in SourceEnum)

\* pre('save'): stamp verifiedAt when isVerified was set, stamp
\* unsubscriptionDate when status became unsubscribed and no date is there.
\* Faulty variant: the hook stamps nothing.
PreSaveMutant(read, doc, t) == doc
PreSave(read, doc, t) ==
  LET d1 == IF doc.isVerified # read.isVerified /\ doc.isVerified
               /\ doc.verifiedAt = NullDate
            THEN [doc EXCEPT !.verifiedAt = t] ELSE doc
  IN IF d1.status # read.status /\ d1.status = "unsubscribed"
        /\ d1.unsubscriptionDate = NullDate
     THEN [d1 EXCEPT !.unsubscriptionDate = t] ELSE d1

\* save() of a new document: hook, validation, insert under the unique
\* index.  ok = FALSE is the rejected promise.
Insert(store, id, doc) ==
  IF ~ValidPaths(doc, Fields) \/ DuplicateKey(store, doc.email)
  THEN [ok |-> FALSE, subs |-> store]
  ELSE [ok |-> TRUE,
        subs |-> [i \in DOMAIN store \cup {id} |->
                    IF i = id THEN doc ELSE store[i]]]

\* save() of a document read earlier as `read` and changed in memory to
\* `doc`: only the modified paths are validated and written, updatedAt is
\* stamped with them; nothing is sent when nothing was modified; a write
\* that matches no stored document rejects.
ModifiedPaths(read, doc) == {f \in Fields : doc[f] # read[f]}

Save(store, id, read, doc, t) ==
  LET hooked == PreSave(read, doc, t)
      paths == ModifiedPaths(read, hooked)
  IN IF paths = {} THEN [ok |-> TRUE, subs |-> store]
     ELSE IF ~ValidPaths(hooked, paths) \/ id \notin DOMAIN store
     THEN [ok |-> FALSE, subs |-> store]
     ELSE [ok |-> TRUE,
           subs |-> [store EXCEPT ![id] =
                       [f \in Fields |->
                          IF f \in paths THEN hooked[f]
                          ELSE IF f = "updatedAt" THEN t
                          ELSE store[id][f]]]]

\* -------------------------------------------------------------- handlers
Respond(store, code, msg) == [subs |-> store, code |-> code, msg |-> msg]

\* subscribeEmail: existingSubscription.status === 'active'
AlreadyActive(doc) == doc.status = "active"

\* subscribeEmail: the reactivation branch is taken for 'unsubscribed'.
Reactivable(doc) == doc.status = "unsubscribed"

\* Faulty variant of the reactivation branch: verifiedAt is stamped again.
ReverifyMutant(doc, source, given, client, t) ==
  [doc EXCEPT !.status = "active", !.subscriptionDate = t,
              !.unsubscriptionDate = NullDate,
              !.unsubscriptionReason = NullString,
              !.source = source,
              !.metadata = [@ EXCEPT !.ipAddress = client.ipAddress,
                                     !.userAgent = client.userAgent,
                                     !.referrer = client.referrer],
              !.preferences = IF HasKeys(given)
                              THEN MergePreferences(@, given) ELSE @,
              !.isVerified = TRUE, !.verifiedAt = t]

\* subscribeEmail: the assignments of the reactivation branch.
\* Faulty variant: the supplied preferences replace the stored ones.
ReactivateMutant(doc, source, given, client, t) ==
  [doc EXCEPT !.status = "active", !.subscriptionDate = t,
              !.unsubscriptionDate = NullDate,
              !.unsubscriptionReason = NullString,
              !.source = source,
              !.metadata = [@ EXCEPT !.ipAddress = client.ipAddress,
                                     !.userAgent = client.userAgent,
                                     !.referrer = client.referrer],
              !.preferences = MergePreferences(DefaultPreferences, given)]
Reactivate(doc, source, given, client, t) ==
  [doc EXCEPT !.status = "active", !.subscriptionDate = t,
              !.unsubscriptionDate = NullDate,
              !.unsubscriptionReason = NullString,
              !.source = source,
              !.metadata = [@ EXCEPT !.ipAddress = client.ipAddress,
                                     !.userAgent = client.userAgent,
                                     !.referrer = client.referrer],
              !.preferences = IF HasKeys(given)
                              THEN MergePreferences(@, given) ELSE @]

\* const { source = 'website-footer' } = req.body
SourceOf(r) == IF r.source = Absent THEN DefaultSource ELSE r.source

\* subscribeEmail after its lookup returned id (NoId: no document): the
\* conflict answer, the reactivation save, or the insert of a new document
\* under newId.  Every rejected save ends in the catch block (500).
SubscribeAfterLookup(store, r, id, read, t, newId) ==
  IF id # NoId /\ AlreadyActive(read)
  THEN Respond(store, 409, "already subscribed")
  ELSE IF id # NoId /\ Reactivable(read)
  THEN LET s == Save(store, id, read,
                     Reactivate(read, SourceOf(r), r.prefs, r.client, t), t)
       IN IF s.ok THEN Respond(s.subs, 200, "reactivated")
          ELSE Respond(store, 500, "failed")
  ELSE LET s == Insert(store, newId,
                       NewSubscription(NormalizeEmail(r.email), SourceOf(r),
                                       r.prefs, r.client, t))
       IN IF s.ok THEN Respond(s.subs, 201, "created")
          ELSE Respond(store, 500, "failed")

\* POST /api/email/subscribe run to completion.
SubscribeEmail(store, r, t, newId) ==
  IF ~ValidSubscription(r) THEN Respond(store, 400, "validation failed")
  ELSE LET id == FindOne(store, NormalizeEmail(r.email))
       IN SubscribeAfterLookup(store, r, id,
                               IF id = NoId THEN NoId ELSE store[id], t, newId)

\* unsubscribeEmail: subscription.status === 'unsubscribed'
\* Faulty variant: the state check is missing.
AlreadyUnsubscribedMutant(doc) == FALSE
AlreadyUnsubscribed(doc) == doc.status = "unsubscribed"

\* reason || 'User requested', on the body the validators sanitized
\* (reason is optional and trimmed when present).
\* Faulty variant: an empty reason is stored as it is.
ReasonOfMutant(reason) == IF reason = Absent THEN DefaultReason ELSE Trim(reason)
ReasonOf(reason) ==
  IF reason = Absent \/ Trim(reason) = "" THEN DefaultReason ELSE Trim(reason)

\* unsubscribeEmail after its lookup returned id.  The handler never reads
\* the validation result.
UnsubscribeAfterLookup(store, r, id, read, t) ==
  IF id = NoId THEN Respond(store, 404, "not found")
  ELSE IF AlreadyUnsubscribed(read)
  THEN Respond(store, 400, "already unsubscribed")
  ELSE LET s == Save(store, id, read,
                     [read EXCEPT !.status = "unsubscribed",
                                  !.unsubscriptionDate = t,
                                  !.unsubscriptionReason = ReasonOf(r.reason)],
                     t)
       IN IF s.ok THEN Respond(s.subs, 200, "unsubscribed")
          ELSE Respond(store, 500, "failed")

\* POST /api/email/unsubscribe run to completion.
UnsubscribeEmail(store, r, t) ==
  LET id == FindOne(store, NormalizeEmail(r.email))
  IN UnsubscribeAfterLookup(store, r, id,
                            IF id = NoId THEN NoId ELSE store[id], t)

\* updateSubscription after findById returned id.  The handler never reads
\* the validation result, so a status outside the enum reaches save().
UpdateAfterLookup(store, r, id, read, t) ==
  IF id = NoId THEN Respond(store, 404, "not found")
  ELSE LET d1 == IF r.status # Absent
                 THEN [read EXCEPT !.status = r.status] ELSE read
           d2 == IF HasKeys(r.prefs)
                 THEN [d1 EXCEPT !.preferences = MergePreferences(@, r.prefs)]
                 ELSE d1
           d3 == IF r.tags.given
                 THEN [d2 EXCEPT !.tags = r.tags.value] ELSE d2
           s == Save(store, id, read, d3, t)
       IN IF s.ok THEN Respond(s.subs, 200, "updated")
          ELSE Respond(store, 500, "failed")

\* PUT /api/email/subscription/:id run to completion.
UpdateSubscription(store, r, t) ==
  LET id == FindById(store, r.id)
  IN UpdateAfterLookup(store, r, id,
                       IF id = NoId THEN NoId ELSE store[id], t)

\* DELETE /api/email/subscription/:id run to completion.
DeleteSubscription(store, r) ==
  LET id == FindById(store, r.id)
  IN IF id = NoId THEN Respond(store, 404, "not found")
     ELSE Respond([i \in DOMAIN store \ {id} |-> store[i]], 200, "deleted")

\* ----------------------------------------------------------------- state
VARIABLES
  subs,     \* the EmailSubscription collection: id -> document
  now,      \* Date.now()
  nextId,   \* the next fresh _id
  last,     \* the request handled last and its response
  prev,     \* the collection before that request
  pc,       \* concurrent requests: where each handler stands
  creq,     \* concurrent requests: the request of each handler
  cread,    \* concurrent requests: what each handler's lookup returned
  cresp,    \* concurrent requests: the response each handler sent
  base,     \* concurrent requests: the collection when they arrived
  contacts, \* the Contact collection: id -> document
  clock,    \* contact requests: Date.now(), in hours
  nextContactId, \* contact requests: the next fresh _id
  klast,    \* contact requests: the request handled last and its response
  kprev,    \* contact requests: the collection before that request
  kpc,      \* concurrent submissions: where each handler stands
  kreq,     \* concurrent submissions: the request of each handler
  kfound,   \* concurrent submissions: what each handler's lookup returned
  kresp,    \* concurrent submissions: the status each handler answered
  hroute,   \* request pipeline: the route of the request in progress
  hcred,    \* request pipeline: the credential the request carries
  hidentity, \* request pipeline: the identity the auth step yielded
  hstage,   \* request pipeline: idle, auth, handler, catch, done or uncaught
  hrest,    \* request pipeline: the handler's statements still to run
  hsent,    \* request pipeline: the responses sent for this request
  haccess,  \* request pipeline: store calls completed for this request
  query,    \* read requests: the collection read and the query string
  reply     \* read requests: the response body

conc == <<pc, creq, cread, cresp, base>>
kconc == <<kpc, kreq, kfound, kresp>>
kvars == <<contacts, clock, nextContactId, klast, kprev, kconc>>
hvars == <<hroute, hcred, hidentity, hstage, hrest, hsent, haccess>>
qvars == <<query, reply>>
\* What the subscription handlers never touch.
other == <<kvars, hvars, qvars>>
svars == <<subs, now, nextId, last, prev, conc>>
vars == <<subs, now, nextId, last, prev, pc, creq, cread, cresp, base, other>>

EmptyStore == [i \in {} |-> NoId]

Request(op, email, source, prefs, client, reason, id, status, tags) ==
  [op |-> op, email |-> email, source |-> source, prefs |-> prefs,
   client |-> client, reason |-> reason, id |-> id, status |-> status,
   tags |-> tags]

NoClient == [ipAddress |-> NullString, userAgent |-> NullString,
             referrer |-> NullString]
NoRequest ==
  Request("none", Absent, Absent, NoPrefs, NoClient, Absent, NoId, Absent, NoTags)

\* Two handlers may be in flight at once.
Procs == {1, 2}
NoRead == [id |-> NoId, doc |-> NoId]
NoResponse == [code |-> 0, msg |-> "none"]

NoContactRequest ==
  [op |-> "none", email |-> Absent,
   form |-> [name |-> Absent, phone |-> Absent, description |-> Absent],
   id |-> NoId,
   status |-> Absent, priority |-> Absent, assignedTo |-> Absent,
   notes |-> Absent, user |-> Absent]

ContactInit ==
  /\ contacts = EmptyStore
  /\ clock = 0
  /\ nextContactId = 1
  /\ klast = [req |-> NoContactRequest, code |-> 0, time |-> 0]
  /\ kprev = EmptyStore
  /\ kpc = [p \in Procs |-> "idle"]
  /\ kreq = [p \in Procs |-> NoContactRequest]
  /\ kfound = [p \in Procs |-> FALSE]
  /\ kresp = [p \in Procs |-> 0]

NoRoute == "none"
NoIdentity == "none"

PipelineInit ==
  /\ hroute = NoRoute
  /\ hcred = Absent
  /\ hidentity = NoIdentity
  /\ hstage = "idle"
  /\ hrest = <<>>
  /\ hsent = <<>>
  /\ haccess = 0

NoQuery == [kind |-> "none"]
NoReply == [kind |-> "none"]

ReadInit == query = NoQuery /\ reply = NoReply

OtherInit == ContactInit /\ PipelineInit /\ ReadInit

SubscriptionInit ==
  /\ subs = EmptyStore
  /\ now = 1
  /\ nextId = 1
  /\ last = [req |-> NoRequest, code |-> 0, msg |-> "none"]
  /\ prev = EmptyStore
  /\ pc = [p \in Procs |-> "idle"]
  /\ creq = [p \in Procs |-> NoRequest]
  /\ cread = [p \in Procs |-> NoRead]
  /\ cresp = [p \in Procs |-> NoResponse]
  /\ base = EmptyStore

Init == SubscriptionInit /\ OtherInit

Handled(r, out) ==
  /\ subs' = out.subs
  /\ last' = [req |-> r, code |-> out.code, msg |-> out.msg]
  /\ prev' = subs
  /\ now' = now + 1
  /\ nextId' = IF out.code = 201 THEN nextId + 1 ELSE nextId
  /\ UNCHANGED <<conc, other>>

Subscribe ==
  /\ now < MaxTime
  /\ \E e \in EmailInputs, b \in SubscribeBodies :
       LET r == Request("subscribe", e, b.source, b.prefs, b.client, Absent,
                        NoId, Absent, NoTags)
       IN Handled(r, SubscribeEmail(subs, r, now, nextId))

Unsubscribe ==
  /\ now < MaxTime
  /\ \E e \in EmailInputs, why \in ReasonInputs :
       LET r == Request("unsubscribe", e, Absent, NoPrefs, NoClient, why, NoId,
                        Absent, NoTags)
       IN Handled(r, UnsubscribeEmail(subs, r, now))

AdminUpdate ==
  /\ now < MaxTime
  /\ \E i \in 1..nextId, b \in UpdateBodies :
       LET r == Request("update", Absent, Absent, b.prefs, NoClient, Absent, i,
                        b.status, b.tags)
       IN Handled(r, UpdateSubscription(subs, r, now))

AdminDelete ==
  /\ now < MaxTime
  /\ \E i \in 1..nextId :
       LET r == Request("delete", Absent, Absent, NoPrefs, NoClient, Absent, i,
                        Absent, NoTags)
       IN Handled(r, DeleteSubscription(subs, r))

Next == Subscribe \/ Unsubscribe \/ AdminUpdate \/ AdminDelete

Spec == Init /\ [][Next]_vars

\* ---------------------------------------------------- concurrent requests
\* Each handler awaits its lookup (findOne) and later its save(); between
\* the two awaits other handlers run.  Two public requests arrive together,
\* run interleaved, and the next two arrive when both were answered.
ConcEmailInputs == {"a@x.com", "A@x.com", "b@x.com"}
ConcReasonInputs == {Absent, " spam "}
ConcRequests ==
  { Request("subscribe", e, b.source, b.prefs, b.client, Absent, NoId, Absent,
            NoTags) : e \in ConcEmailInputs, b \in SubscribeBodies }
  \cup { Request("unsubscribe", e, Absent, NoPrefs, NoClient, why, NoId,
                 Absent, NoTags) : e \in ConcEmailInputs, why \in ConcReasonInputs }

Arrive ==
  /\ \A p \in Procs : pc[p] = "idle"
  /\ now + Cardinality(Procs) <= MaxTime
  /\ \E r1 \in ConcRequests, r2 \in ConcRequests :
       creq' = [p \in Procs |-> IF p = 1 THEN r1 ELSE r2]
  /\ pc' = [p \in Procs |-> "start"]
  /\ cread' = [p \in Procs |-> NoRead]
  /\ cresp' = [p \in Procs |-> NoResponse]
  /\ base' = subs
  /\ UNCHANGED <<subs, now, nextId, last, prev, other>>

\* Up to the first await: the validation answer of subscribeEmail, or the
\* lookup's result.
Lookup(p) ==
  /\ pc[p] = "start"
  /\ IF creq[p].op = "subscribe" /\ ~ValidSubscription(creq[p])
     THEN /\ pc' = [pc EXCEPT ![p] = "done"]
          /\ cresp' = [cresp EXCEPT ![p] = [code |-> 400, msg |-> "validation failed"]]
          /\ UNCHANGED cread
     ELSE LET id == FindOne(subs, NormalizeEmail(creq[p].email))
          IN /\ pc' = [pc EXCEPT ![p] = "looked"]
             /\ cread' = [cread EXCEPT ![p] =
                            [id |-> id,
                             doc |-> IF id = NoId THEN NoId ELSE subs[id]]]
             /\ UNCHANGED cresp
  /\ UNCHANGED <<subs, now, nextId, last, prev, creq, base, other>>

\* From the lookup's result to the response, the save() included.
Finish(p) ==
  /\ pc[p] = "looked"
  /\ LET out == IF creq[p].op = "subscribe"
                THEN SubscribeAfterLookup(subs, creq[p], cread[p].id,
                                          cread[p].doc, now, nextId)
                ELSE UnsubscribeAfterLookup(subs, creq[p], cread[p].id,
                                            cread[p].doc, now)
     IN /\ subs' = out.subs
        /\ cresp' = [cresp EXCEPT ![p] = [code |-> out.code, msg |-> out.msg]]
        /\ nextId' = IF out.code = 201 THEN nextId + 1 ELSE nextId
  /\ pc' = [pc EXCEPT ![p] = "done"]
  /\ now' = now + 1
  /\ UNCHANGED <<last, prev, creq, cread, base, other>>

Answered ==
  /\ \A p \in Procs : pc[p] = "done"
  /\ pc' = [p \in Procs |-> "idle"]
  /\ UNCHANGED <<subs, now, nextId, last, prev, creq, cread, cresp, base, other>>

NextConc ==
  \/ Arrive
  \/ \E p \in Procs : Lookup(p)
  \/ \E p \in Procs : Finish(p)
  \/ Answered

SpecConc == Init /\ [][NextConc]_vars

\* ------------------------------------------- requests on one subscription
\* Subscribe, unsubscribe and admin update handlers on the subscription of
\* one email.  A handler arrives whenever its process is free, awaits its
\* lookup (findOne or findById) and later its save().
RaceEmail == "a@x.com"
RaceStatusInputs == {"active", "unsubscribed", "bounced"}
RaceRequests ==
  { Request("subscribe", RaceEmail, Absent, NoPrefs, NoClient, Absent, NoId,
            Absent, NoTags),
    Request("unsubscribe", RaceEmail, Absent, NoPrefs, NoClient, Absent, NoId,
            Absent, NoTags) }
  \cup { Request("update", Absent, Absent, NoPrefs, NoClient, Absent, 1, st,
                 NoTags) : st \in RaceStatusInputs }

InFlight == Cardinality({p \in Procs : pc[p] # "idle"})

RaceArrive(p) ==
  /\ pc[p] = "idle"
  /\ now + InFlight <= MaxTime
  /\ \E r \in RaceRequests : creq' = [creq EXCEPT ![p] = r]
  /\ pc' = [pc EXCEPT ![p] = "start"]
  /\ cread' = [cread EXCEPT ![p] = NoRead]
  /\ cresp' = [cresp EXCEPT ![p] = NoResponse]
  /\ UNCHANGED <<subs, now, nextId, last, prev, base, other>>

\* Up to the first await: the validation answer of subscribeEmail, or the
\* result of findOne (subscribe, unsubscribe) or findById (update).
RaceLookup(p) ==
  /\ pc[p] = "start"
  /\ IF creq[p].op = "subscribe" /\ ~ValidSubscription(creq[p])
     THEN /\ pc' = [pc EXCEPT ![p] = "done"]
          /\ cresp' = [cresp EXCEPT ![p] = [code |-> 400, msg |-> "validation failed"]]
          /\ UNCHANGED cread
     ELSE LET id == IF creq[p].op = "update" THEN FindById(subs, creq[p].id)
                    ELSE FindOne(subs, NormalizeEmail(creq[p].email))
          IN /\ pc' = [pc EXCEPT ![p] = "looked"]
             /\ cread' = [cread EXCEPT ![p] =
                            [id |-> id,
                             doc |-> IF id = NoId THEN NoId ELSE subs[id]]]
             /\ UNCHANGED cresp
  /\ UNCHANGED <<subs, now, nextId, last, prev, creq, base, other>>

\* From the lookup's result to the response, the save() included.
RaceFinish(p) ==
  /\ pc[p] = "looked"
  /\ LET out == IF creq[p].op = "subscribe"
                THEN SubscribeAfterLookup(subs, creq[p], cread[p].id,
                                          cread[p].doc, now, nextId)
                ELSE IF creq[p].op = "unsubscribe"
                THEN UnsubscribeAfterLookup(subs, creq[p], cread[p].id,
                                            cread[p].doc, now)
                ELSE UpdateAfterLookup(subs, creq[p], cread[p].id,
                                       cread[p].doc, now)
     IN /\ subs' = out.subs
        /\ cresp' = [cresp EXCEPT ![p] = [code |-> out.code, msg |-> out.msg]]
        /\ nextId' = IF out.code = 201 THEN nextId + 1 ELSE nextId
  /\ pc' = [pc EXCEPT ![p] = "done"]
  /\ now' = now + 1
  /\ UNCHANGED <<last, prev, creq, cread, base, other>>

\* The response was sent; the process takes the next request.
RaceLeave(p) ==
  /\ pc[p] = "done"
  /\ pc' = [pc EXCEPT ![p] = "idle"]
  /\ UNCHANGED <<subs, now, nextId, last, prev, creq, cread, cresp, base, other>>

NextRace ==
  \E p \in Procs :
    RaceArrive(p) \/ RaceLookup(p) \/ RaceFinish(p) \/ RaceLeave(p)

SpecRace == Init /\ [][NextRace]_vars

\* ------------------------------------------------------- sequential claims
\* The lookup key, the looked-up document and the time of the last request.
LastEmail == NormalizeEmail(last.req.email)
LastId == IF last.req.op \in {"subscribe", "unsubscribe"}
          THEN FindOne(prev, LastEmail) ELSE FindById(prev, last.req.id)
LastTime == now - 1
WithEmail(store, e) == {i \in DOMAIN store : Lower(store[i].email) = Lower(e)}
OthersUnchanged(id) ==
  /\ DOMAIN subs = DOMAIN prev
  /\ \A i \in DOMAIN prev \ {id} : subs[i] = prev[i]
ValidSubscribe == last.req.op = "subscribe" /\ ValidSubscription(last.req)

\* C1: a valid subscribe on an email whose stored subscription is active
\* answers the 'already subscribed' conflict (409) and changes nothing; and
\* whenever the email was fresh before a first valid subscribe, the valid
\* subscribe that follows it on the same email gets that answer.
C1_SecondSubscribeConflicts ==
  [][ LET e == NormalizeEmail(last'.req.email)
          id == FindOne(subs, e)
          active == id # NoId /\ subs[id].status = "active"
          second == /\ ValidSubscribe
                    /\ LastEmail = e
                    /\ LastId = NoId
      IN (last'.req.op = "subscribe" /\ ValidSubscription(last'.req)
          /\ (active \/ second))
         => /\ last'.code = 409
            /\ last'.msg = "already subscribed"
            /\ subs' = subs ]_vars

\* C1, first half alone: the conflict answer on a stored active email.
C1_ActiveConflict ==
  (ValidSubscribe /\ LastId # NoId /\ prev[LastId].status = "active")
  => (last.code = 409 /\ last.msg = "already subscribed" /\ subs = prev)

C1_Witness ==
  /\ ValidSubscribe /\ LastId # NoId /\ prev[LastId].status = "active"
  /\ last.code = 409 /\ last.req.email = "A@x.com"

\* C2: a valid subscribe on an email with no stored subscription answers
\* 'created' (201) and stores exactly one new subscription for it:
\* active, verified, verifiedAt set, each preference the supplied value
\* when supplied and true otherwise.
C2_FreshCreates ==
  (ValidSubscribe /\ LastId = NoId)
  => /\ last.code = 201
     /\ Cardinality(WithEmail(subs, LastEmail)) = 1
     /\ Cardinality(DOMAIN subs) = Cardinality(DOMAIN prev) + 1
     /\ \A i \in DOMAIN prev : i \in DOMAIN subs /\ subs[i] = prev[i]
     /\ \A i \in WithEmail(subs, LastEmail) :
          /\ subs[i].status = "active"
          /\ subs[i].isVerified
          /\ subs[i].verifiedAt # NullDate
          /\ \A k \in PrefKeys :
               subs[i].preferences[k] =
                 IF last.req.prefs[k] = Absent THEN TRUE
                 ELSE last.req.prefs[k] = "true"

\* C3: a valid subscribe on an email whose stored subscription is not
\* active reactivates that record and answers 'reactivated' (200).
C3_NonActiveReactivated ==
  (ValidSubscribe /\ LastId # NoId /\ prev[LastId].status # "active")
  => /\ last.code = 200
     /\ last.msg = "reactivated"
     /\ OthersUnchanged(LastId)
     /\ subs[LastId].status = "active"
     /\ subs[LastId].subscriptionDate = LastTime
     /\ subs[LastId].unsubscriptionDate = NullDate
     /\ subs[LastId].unsubscriptionReason = NullString
     /\ subs[LastId].source = SourceOf(last.req)
     /\ subs[LastId].metadata.ipAddress = last.req.client.ipAddress
     /\ subs[LastId].metadata.userAgent = last.req.client.userAgent
     /\ subs[LastId].metadata.referrer = last.req.client.referrer

\* C4: an unsubscribe on a stored subscription followed by a valid
\* subscribe(email, P) ends with status active, unsubscriptionDate and
\* unsubscriptionReason null, every preference named in P at its value in
\* P and every other preference at its value before the unsubscribe.
C4_RoundTrip ==
  [][ (/\ last.req.op = "unsubscribe"
       /\ LastId # NoId
       /\ last'.req.op = "subscribe"
       /\ ValidSubscription(last'.req)
       /\ NormalizeEmail(last'.req.email) = LastEmail)
      => /\ LastId \in DOMAIN subs'
         /\ subs'[LastId].status = "active"
         /\ subs'[LastId].unsubscriptionDate = NullDate
         /\ subs'[LastId].unsubscriptionReason = NullString
         /\ \A k \in PrefKeys :
              subs'[LastId].preferences[k] =
                IF last'.req.prefs[k] = Absent THEN prev[LastId].preferences[k]
                ELSE last'.req.prefs[k] = "true" ]_vars

\* The resubscribe after an unsubscribe for ' spam ' overrode three
\* preferences and kept the newsletters opt-out set before.
C4_Witness ==
  /\ ValidSubscribe /\ LastId # NoId /\ last.code = 200
  /\ prev[LastId].status = "unsubscribed"
  /\ prev[LastId].unsubscriptionReason = "spam"
  /\ last.req.prefs = AllButNewsletters
  /\ ~subs[LastId].preferences["newsletters"]
  /\ ~subs[LastId].preferences["events"]

\* C5: no two stored subscriptions have the same lowercased email.
C5_EmailUnique ==
  \A i, j \in DOMAIN subs :
    i # j => Lower(subs[i].email) # Lower(subs[j].email)

\* A subscribe on a stored bounced email reached the insert and the index
\* rejected it, next to a second stored subscription.
C5_Witness ==
  /\ ValidSubscribe /\ LastId # NoId /\ last.code = 500
  /\ Cardinality(DOMAIN subs) = 2

\* C8: unsubscribe answers 404 when no subscription is stored for the
\* email and 400 when the stored one is already unsubscribed, and changes
\* no stored subscription in either case.
C8_UnsubscribeRejects ==
  last.req.op = "unsubscribe"
  => /\ LastId = NoId => (last.code = 404 /\ subs = prev)
     /\ (LastId # NoId /\ prev[LastId].status = "unsubscribed")
        => (last.code = 400 /\ subs = prev)

C8_Witness ==
  /\ last.req.op = "unsubscribe" /\ LastId # NoId
  /\ prev[LastId].status = "unsubscribed" /\ last.code = 400
  /\ subs[LastId].unsubscriptionReason = "spam"
  /\ last.req.reason = ""

\* C9 as stated: unsubscribe on an active, bounced or complained
\* subscription sets status, unsubscriptionDate = now and
\* unsubscriptionReason = reason ('User requested' when omitted or empty)
\* and changes no other field and no other subscription.
C9_OnlyThreeFields ==
  (/\ last.req.op = "unsubscribe" /\ LastId # NoId
   /\ prev[LastId].status \in {"active", "bounced", "complained"})
  => /\ OthersUnchanged(LastId)
     /\ subs[LastId] =
          [prev[LastId] EXCEPT
             !.status = "unsubscribed",
             !.unsubscriptionDate = LastTime,
             !.unsubscriptionReason =
                IF last.req.reason \in {Absent, ""} THEN DefaultReason
                ELSE last.req.reason]

\* C9 amended: the stored reason is the reason with surrounding white space
\* removed ('User requested' when it is omitted or empty after that), and
\* the store's updatedAt is stamped with the write.
C9_Unsubscribed ==
  (/\ last.req.op = "unsubscribe" /\ LastId # NoId
   /\ prev[LastId].status \in {"active", "bounced", "complained"})
  => /\ OthersUnchanged(LastId)
     /\ last.code = 200
     /\ subs[LastId] =
          [prev[LastId] EXCEPT
             !.status = "unsubscribed",
             !.unsubscriptionDate = LastTime,
             !.unsubscriptionReason =
                IF last.req.reason = Absent THEN DefaultReason
                ELSE IF Trim(last.req.reason) = "" THEN DefaultReason
                ELSE Trim(last.req.reason),
             !.updatedAt = LastTime]

\* An empty reason on a bounced subscription, next to another subscription.
C9_Witness ==
  /\ last.req.op = "unsubscribe" /\ LastId # NoId
  /\ prev[LastId].status = "bounced"
  /\ last.req.reason = "  "
  /\ subs[LastId].unsubscriptionReason = DefaultReason
  /\ Cardinality(DOMAIN subs) = 2

\* C10: every stored subscription with status unsubscribed has an
\* unsubscriptionDate.
C10_UnsubscribedHasDate ==
  \A i \in DOMAIN subs :
    subs[i].status = "unsubscribed" => subs[i].unsubscriptionDate # NullDate

\* An admin update moved a subscription that had no unsubscriptionDate to
\* unsubscribed.
C10_Witness ==
  /\ last.req.op = "update" /\ last.req.status = "unsubscribed"
  /\ last.code = 200 /\ LastId # NoId
  /\ prev[LastId].status = "complained"
  /\ prev[LastId].unsubscriptionDate = NullDate
  /\ subs[LastId].status = "unsubscribed"

\* ------------------------------------------------------- concurrent claims
AllAnswered == \A p \in Procs : pc[p] = "done"
ConcEmail(p) == NormalizeEmail(creq[p].email)
Codes == {cresp[p].code : p \in Procs}

\* C6: two valid concurrent subscribes for one not-yet-stored email, both
\* lookups done before either insert: exactly one subscription is stored,
\* one request answers 'created' (201) and the other the 'already
\* subscribed' conflict (409).
C6_RaceAnswersConflict ==
  (/\ AllAnswered
   /\ \A p \in Procs : /\ creq[p].op = "subscribe"
                       /\ ValidSubscription(creq[p])
                       /\ MatchesEmailPattern(creq[p].email)
                       /\ ConcEmail(p) = ConcEmail(1)
                       /\ cread[p].id = NoId
   /\ FindOne(base, ConcEmail(1)) = NoId)
  => /\ Cardinality(WithEmail(subs, ConcEmail(1))) = 1
     /\ \E p, q \in Procs :
          /\ p # q
          /\ cresp[p].code = 201
          /\ cresp[q].code = 409 /\ cresp[q].msg = "already subscribed"

\* A stored document without the values of its time stamps.
Timeless(doc) ==
  [email |-> doc.email, status |-> doc.status, source |-> doc.source,
   unsubscribed |-> doc.unsubscriptionDate # NullDate,
   unsubscriptionReason |-> doc.unsubscriptionReason,
   preferences |-> doc.preferences, metadata |-> doc.metadata,
   tags |-> doc.tags, isVerified |-> doc.isVerified]
Contents(store) == {Timeless(store[i]) : i \in DOMAIN store}

\* One request run to completion.
Serve(store, r, t, id) ==
  IF r.op = "subscribe" THEN SubscribeEmail(store, r, t, id)
  ELSE UnsubscribeEmail(store, r, t)

\* The responses and the final collection when p runs before q.
SerialOutcome(p, q) ==
  LET first == Serve(base, creq[p], now, nextId)
      second == Serve(first.subs, creq[q], now + 1, nextId + 1)
  IN /\ cresp[p].code = first.code
     /\ cresp[q].code = second.code
     /\ Contents(subs) = Contents(second.subs)

\* C7: the responses and the final stored subscriptions of two concurrent
\* subscribe/unsubscribe requests on one email are those of one of the two
\* serial orders.
C7_Serializable ==
  (AllAnswered /\ ConcEmail(1) = ConcEmail(2))
  => (SerialOutcome(1, 2) \/ SerialOutcome(2, 1))

\* ================================================================ contacts
\* routes/contactRoutes.js (validators), createContact, updateContact and
\* deleteContact of controllers/contactController.js, and the Contact
\* schema of models/Contact.js.  Time is counted in hours.

\* No contact request starts after MaxClock.
MaxClock == 60
\* 24 * 60 * 60 * 1000 milliseconds, in hours.
DayHours == 24
\* Hours that pass before the next contact request is handled.
Gaps == {12, 24, 25}

ContactStatusEnum == {"new", "contacted", "in-progress", "completed", "cancelled"}
PriorityEnum == {"low", "medium", "high", "urgent"}
ContactSource == "website"
SystemAuthor == "system"
DefaultAuthor == "admin"
NotePrefix == "Contact form submitted from "

\* { name, email, phone, description } of POST /api/contact
ContactEmailInputs == {"a@x.com", "A@x.com", "c@x.info", "not-an-email"}
GoodForm == [name |-> " Ann ", phone |-> "15551234567",
             description |-> "Please call me back"]
ShortName == [name |-> "A", phone |-> "15551234567",
              description |-> "Please call me back"]
ContactForms == {GoodForm, ShortName}
\* { status, priority, assignedTo, notes } of PUT /api/contact/:id
NoChange == [status |-> Absent, priority |-> Absent, assignedTo |-> Absent,
             notes |-> Absent]
ContactUpdateBodies ==
  { NoChange,
    [NoChange EXCEPT !.status = "contacted", !.notes = " called "],
    [NoChange EXCEPT !.priority = "high", !.assignedTo = "5f1d7f0e9b1e8a0017a1b2c3"],
    [NoChange EXCEPT !.notes = "  "],
    [NoChange EXCEPT !.notes = "note of 501 characters"],
    [NoChange EXCEPT !.status = "bogus", !.notes = " called "],
    [NoChange EXCEPT !.assignedTo = "nobody"] }
\* req.user?.name as the auth step left it: no name, or a display name.
UserNames == {Absent, "Dana"}

\* validator's trim on the names and notes above.
TrimText(s) ==
  IF s = " Ann " THEN "Ann" ELSE IF s = " called " THEN "called"
  ELSE IF s = "  " THEN "" ELSE s

\* isLength on the trimmed inputs above.
Length(s) ==
  IF s = "" THEN 0 ELSE IF s = "A" THEN 1 ELSE IF s = "Ann" THEN 3
  ELSE IF s = "called" THEN 6 ELSE IF s = "Please call me back" THEN 19
  ELSE IF s = "note of 501 characters" THEN 501 ELSE 11

\* /^[\+]?[0-9]{10,15}$/
MatchesPhonePattern(p) == p = "15551234567"

\* isMongoId: 24 hexadecimal digits.
IsMongoId(s) == s = "5f1d7f0e9b1e8a0017a1b2c3"

\* validateContact, as createContact reads it with validationResult.
ValidContact(r) ==
  /\ Length(TrimText(r.form.name)) >= 2 /\ Length(TrimText(r.form.name)) <= 100
  /\ IsEmail(r.email)
  /\ MatchesPhonePattern(r.form.phone)
  /\ Length(TrimText(r.form.description)) >= 10
  /\ Length(TrimText(r.form.description)) <= 1000

\* validateContactUpdate: what the rules of PUT /api/contact/:id accept.
ValidContactUpdate(r) ==
  /\ (r.status = Absent \/ r.status \in ContactStatusEnum)
  /\ (r.priority = Absent \/ r.priority \in PriorityEnum)
  /\ (r.assignedTo = Absent \/ IsMongoId(r.assignedTo))
  /\ (r.notes = Absent
        \/ (Length(TrimText(r.notes)) >= 1 /\ Length(TrimText(r.notes)) <= 500))

ContactFields ==
  {"name", "email", "phone", "description", "status", "source", "notes",
   "assignedTo", "priority", "createdAt", "updatedAt"}

\* new Contact({...}) of createContact with the schema defaults.
NewContact(r, t) ==
  [name |-> TrimText(r.form.name), email |-> Lower(NormalizeEmail(r.email)),
   phone |-> r.form.phone, description |-> TrimText(r.form.description),
   status |-> "new", source |-> ContactSource, notes |-> <<>>,
   assignedTo |-> NullString, priority |-> "medium",
   createdAt |-> t, updatedAt |-> t]

\* pre('save') of the Contact schema: a new document gets the note that
\* names its source.
\* Faulty variant: the hook runs on every save.
ContactPreSaveMutant(isNew, doc, t) ==
  [doc EXCEPT !.notes = Append(@, [note |-> <<NotePrefix, doc.source>>,
                                   addedBy |-> SystemAuthor, addedAt |-> t])]
ContactPreSave(isNew, doc, t) ==
  IF isNew
  THEN [doc EXCEPT !.notes = Append(@, [note |-> <<NotePrefix, doc.source>>,
                                        addedBy |-> SystemAuthor, addedAt |-> t])]
  ELSE doc

\* Schema validation of the paths of a Contact that are being written.
ValidContactPaths(doc, paths) ==
  /\ ("email" \in paths => MatchesEmailPattern(doc.email))
  /\ ("phone" \in paths => MatchesPhonePattern(doc.phone))
  /\ ("name" \in paths => Length(doc.name) >= 1 /\ Length(doc.name) <= 100)
  /\ ("description" \in paths =>
        Length(doc.description) >= 1 /\ Length(doc.description) <= 1000)
  /\ ("status" \in paths => doc.status \in ContactStatusEnum)
  /\ ("priority" \in paths => doc.priority \in PriorityEnum)
  /\ ("assignedTo" \in paths =>
        doc.assignedTo = NullString \/ IsMongoId(doc.assignedTo))

\* save() of a new Contact: hook, validation, insert (no unique index).
InsertContact(store, id, doc, t) ==
  LET hooked == ContactPreSave(TRUE, doc, t)
  IN IF ~ValidContactPaths(hooked, ContactFields)
     THEN [ok |-> FALSE, store |-> store]
     ELSE [ok |-> TRUE,
           store |-> [i \in DOMAIN store \cup {id} |->
                        IF i = id THEN hooked ELSE store[i]]]

\* save() of a Contact read earlier: the modified paths are validated and
\* written, updatedAt is stamped with them.
SaveContact(store, id, read, doc, t) ==
  LET hooked == ContactPreSave(FALSE, doc, t)
      paths == {f \in ContactFields : hooked[f] # read[f]}
  IN IF paths = {} THEN [ok |-> TRUE, store |-> store]
     ELSE IF ~ValidContactPaths(hooked, paths)
     THEN [ok |-> FALSE, store |-> store]
     ELSE [ok |-> TRUE,
           store |-> [store EXCEPT ![id] = [hooked EXCEPT !.updatedAt = t]]]

\* findOne({ email, createdAt: { $gte: new Date(Date.now() - 24h) } })
\* Faulty variant: the window is open at its far end ($gt).
RecentContactMutant(store, email, t) ==
  {i \in DOMAIN store :
     store[i].email = Lower(email) /\ store[i].createdAt > t - DayHours}
RecentContact(store, email, t) ==
  {i \in DOMAIN store :
     store[i].email = Lower(email) /\ store[i].createdAt >= t - DayHours}

ContactAnswer(store, code) == [store |-> store, code |-> code]

\* POST /api/contact run to completion.
CreateContact(store, r, t, newId) ==
  IF ~ValidContact(r) THEN ContactAnswer(store, 400)
  ELSE IF RecentContact(store, NormalizeEmail(r.email), t) # {}
  THEN ContactAnswer(store, 409)
  ELSE LET s == InsertContact(store, newId, NewContact(r, t), t)
       IN IF s.ok THEN ContactAnswer(s.store, 201)
          ELSE ContactAnswer(store, 500)

\* req.user?.name || 'admin'
AddedBy(user) == IF user = Absent THEN DefaultAuthor ELSE user

\* PUT /api/contact/:id run to completion, on the body the validators
\* sanitized (notes trimmed).  The handler never reads the validation
\* result.
UpdateContact(store, r, t) ==
  LET id == FindById(store, r.id)
  IN IF id = NoId THEN ContactAnswer(store, 404)
     ELSE LET read == store[id]
              d1 == IF r.status # Absent
                    THEN [read EXCEPT !.status = r.status] ELSE read
              d2 == IF r.priority # Absent
                    THEN [d1 EXCEPT !.priority = r.priority] ELSE d1
              d3 == IF r.assignedTo # Absent
                    THEN [d2 EXCEPT !.assignedTo = r.assignedTo] ELSE d2
              d4 == IF r.notes # Absent /\ TrimText(r.notes) # ""
                    THEN [d3 EXCEPT !.notes =
                            Append(@, [note |-> <<TrimText(r.notes)>>,
                                       addedBy |-> AddedBy(r.user),
                                       addedAt |-> t])]
                    ELSE d3
              s == SaveContact(store, id, read, d4, t)
          IN IF s.ok THEN ContactAnswer(s.store, 200)
             ELSE ContactAnswer(store, 500)

\* DELETE /api/contact/:id run to completion.
DeleteContact(store, r) ==
  LET id == FindById(store, r.id)
  IN IF id = NoId THEN ContactAnswer(store, 404)
     ELSE ContactAnswer([i \in DOMAIN store \ {id} |-> store[i]], 200)

ContactHandled(r, out, t) ==
  /\ contacts' = out.store
  /\ klast' = [req |-> r, code |-> out.code, time |-> t]
  /\ kprev' = contacts
  /\ clock' = t
  /\ nextContactId' = IF out.code = 201 THEN nextContactId + 1 ELSE nextContactId
  /\ UNCHANGED <<svars, hvars, qvars, kconc>>

SubmitContact ==
  \E d \in Gaps, e \in ContactEmailInputs, f \in ContactForms :
    /\ clock + d <= MaxClock
    /\ LET r == [NoContactRequest EXCEPT !.op = "create", !.email = e, !.form = f]
       IN ContactHandled(r, CreateContact(contacts, r, clock + d, nextContactId),
                         clock + d)

AdminUpdateContact ==
  \E d \in Gaps, i \in 1..nextContactId, b \in ContactUpdateBodies,
     u \in UserNames :
    /\ clock + d <= MaxClock
    /\ LET r == [NoContactRequest EXCEPT !.op = "update", !.id = i,
                   !.status = b.status, !.priority = b.priority,
                   !.assignedTo = b.assignedTo, !.notes = b.notes, !.user = u]
       IN ContactHandled(r, UpdateContact(contacts, r, clock + d), clock + d)

AdminDeleteContact ==
  \E d \in Gaps, i \in 1..nextContactId :
    /\ clock + d <= MaxClock
    /\ LET r == [NoContactRequest EXCEPT !.op = "delete", !.id = i]
       IN ContactHandled(r, DeleteContact(contacts, r), clock + d)

NextContact == SubmitContact \/ AdminUpdateContact \/ AdminDeleteContact

SpecContact == Init /\ [][NextContact]_vars

\* ---------------------------------------------- concurrent submissions
\* createContact awaits its duplicate lookup (findOne) and later its
\* save(); between the two awaits other handlers run.

\* createContact after its lookup: the conflict answer, or the insert.
CreateAfterLookup(store, r, found, t, newId) ==
  IF found THEN ContactAnswer(store, 409)
  ELSE LET s == InsertContact(store, newId, NewContact(r, t), t)
       IN IF s.ok THEN ContactAnswer(s.store, 201)
          ELSE ContactAnswer(store, 500)

ConcContactEmails == {"a@x.com", "A@x.com", "not-an-email"}
\* Hours between one arrival and the next: the same moment, half a day,
\* more than a day.
ConcGaps == {0, 12, 25}

\* A submission arrives, at once or some hours after the one before.
ContactArrive(p) ==
  /\ kpc[p] = "idle"
  /\ \E d \in ConcGaps, e \in ConcContactEmails :
       /\ clock + d <= MaxClock
       /\ clock' = clock + d
       /\ kreq' = [kreq EXCEPT ![p] =
                     [NoContactRequest EXCEPT !.op = "create", !.email = e,
                                              !.form = GoodForm]]
  /\ kpc' = [kpc EXCEPT ![p] = "start"]
  /\ kresp' = [kresp EXCEPT ![p] = 0]
  /\ UNCHANGED <<contacts, nextContactId, klast, kprev, kfound, svars, hvars,
                 qvars>>

\* Up to the first await: the validation answer, or the lookup's result.
ContactLookup(p) ==
  /\ kpc[p] = "start"
  /\ IF ~ValidContact(kreq[p])
     THEN /\ kpc' = [kpc EXCEPT ![p] = "idle"]
          /\ kresp' = [kresp EXCEPT ![p] = 400]
          /\ UNCHANGED kfound
     ELSE /\ kpc' = [kpc EXCEPT ![p] = "looked"]
          /\ kfound' = [kfound EXCEPT ![p] =
                          RecentContact(contacts, NormalizeEmail(kreq[p].email),
                                        clock) # {}]
          /\ UNCHANGED kresp
  /\ UNCHANGED <<contacts, clock, nextContactId, klast, kprev, kreq, svars,
                 hvars, qvars>>

\* From the lookup's result to the response, the save() included.
ContactFinish(p) ==
  /\ kpc[p] = "looked"
  /\ LET out == CreateAfterLookup(contacts, kreq[p], kfound[p], clock,
                                  nextContactId)
     IN /\ contacts' = out.store
        /\ kresp' = [kresp EXCEPT ![p] = out.code]
        /\ nextContactId' = IF out.code = 201 THEN nextContactId + 1
                            ELSE nextContactId
  /\ kpc' = [kpc EXCEPT ![p] = "idle"]
  /\ UNCHANGED <<clock, klast, kprev, kreq, kfound, svars, hvars, qvars>>

NextContactConc ==
  \E p \in Procs : ContactArrive(p) \/ ContactLookup(p) \/ ContactFinish(p)

SpecContactConc == Init /\ [][NextContactConc]_vars

\* ======================================================== request pipeline
\* Each route of routes/contactRoutes.js, routes/emailRoutes.js,
\* routes/dashRoutes.js and server.js: the middleware in front of the
\* handler and the handler's statements that await the store, branch, send
\* a response or return.

\* await <store call>: resolves, or rejects and throws.
Await == [kind |-> "await", code |-> 0, then |-> <<>>]
\* res.status(code).json(...)
Send(code) == [kind |-> "send", code |-> code, then |-> <<>>]
\* return
Return == [kind |-> "return", code |-> 0, then |-> <<>>]
\* if (...) { then }
Branch(then) == [kind |-> "branch", code |-> 0, then |-> then]
\* if (...) return res.status(code).json(...)
ReturnWith(code) == Branch(<<Send(code), Return>>)
Awaits(n) == [k \in 1..n |-> Await]

CreateContactSteps ==
  <<ReturnWith(400), Await, ReturnWith(409), Await, Send(201)>>
GetContactsSteps == <<Await, Await, Send(200)>>
GetContactSteps == <<Await, ReturnWith(404), Send(200)>>
UpdateContactSteps == <<Await, ReturnWith(404), Await, Send(200)>>
DeleteContactSteps == <<Await, ReturnWith(404), Await, Send(200)>>
ContactStatsQueries == 6
GetContactStatsSteps == Awaits(ContactStatsQueries) \o <<Send(200)>>
\* Faulty variant: the conflict answer is sent without return.
SubscribeEmailStepsMutant ==
  <<ReturnWith(400), Await,
    Branch(<<Branch(<<Send(409)>>), Branch(<<Await, Send(200), Return>>)>>),
    Await, Send(201)>>
SubscribeEmailSteps ==
  <<ReturnWith(400), Await,
    Branch(<<ReturnWith(409), Branch(<<Await, Send(200), Return>>)>>),
    Await, Send(201)>>
UnsubscribeEmailSteps ==
  <<Await, ReturnWith(404), ReturnWith(400), Await, Send(200)>>
GetSubscriptionsSteps == <<Await, Await, Send(200)>>
EmailStatsQueries == 8
GetEmailStatsSteps == Awaits(EmailStatsQueries) \o <<Send(200)>>
UpdateSubscriptionSteps == <<Await, ReturnWith(404), Await, Send(200)>>
DeleteSubscriptionSteps == <<Await, ReturnWith(404), Await, Send(200)>>
OverviewQueries == 23
OverviewSteps == Awaits(OverviewQueries) \o <<Send(200)>>
AnalyticsQueries == 4
AnalyticsSteps == Awaits(AnalyticsQueries) \o <<Send(200)>>
HealthSteps == <<Send(200)>>

Route(name, auth, validated, inTry, steps) ==
  [name |-> name, auth |-> auth, validated |-> validated, inTry |-> inTry,
   steps |-> steps]

\* router.METHOD(path, [auth,] [validators,] handler); inTry: the handler's
\* body is one try block with a catch that answers 500.
\* Faulty variant: the subscription list is mounted without auth.
RouteTableMutant ==
  { Route("POST /api/contact", FALSE, TRUE, TRUE, CreateContactSteps),
    Route("GET /api/contact/stats", TRUE, FALSE, TRUE, GetContactStatsSteps),
    Route("GET /api/contact", TRUE, FALSE, TRUE, GetContactsSteps),
    Route("GET /api/contact/:id", TRUE, FALSE, TRUE, GetContactSteps),
    Route("PUT /api/contact/:id", TRUE, TRUE, TRUE, UpdateContactSteps),
    Route("DELETE /api/contact/:id", TRUE, FALSE, TRUE, DeleteContactSteps),
    Route("POST /api/email/subscribe", FALSE, TRUE, TRUE, SubscribeEmailSteps),
    Route("POST /api/email/unsubscribe", FALSE, TRUE, TRUE, UnsubscribeEmailSteps),
    Route("GET /api/email/stats", TRUE, FALSE, TRUE, GetEmailStatsSteps),
    Route("GET /api/email/subscriptions", FALSE, FALSE, TRUE, GetSubscriptionsSteps),
    Route("PUT /api/email/subscription/:id", TRUE, TRUE, TRUE, UpdateSubscriptionSteps),
    Route("DELETE /api/email/subscription/:id", TRUE, FALSE, TRUE, DeleteSubscriptionSteps),
    Route("GET /api/dashboard/overview", TRUE, FALSE, TRUE, OverviewSteps),
    Route("GET /api/dashboard/analytics", TRUE, FALSE, TRUE, AnalyticsSteps),
    Route("GET /api/health", FALSE, FALSE, FALSE, HealthSteps) }
RouteTable ==
  { Route("POST /api/contact", FALSE, TRUE, TRUE, CreateContactSteps),
    Route("GET /api/contact/stats", TRUE, FALSE, TRUE, GetContactStatsSteps),
    Route("GET /api/contact", TRUE, FALSE, TRUE, GetContactsSteps),
    Route("GET /api/contact/:id", TRUE, FALSE, TRUE, GetContactSteps),
    Route("PUT /api/contact/:id", TRUE, TRUE, TRUE, UpdateContactSteps),
    Route("DELETE /api/contact/:id", TRUE, FALSE, TRUE, DeleteContactSteps),
    Route("POST /api/email/subscribe", FALSE, TRUE, TRUE, SubscribeEmailSteps),
    Route("POST /api/email/unsubscribe", FALSE, TRUE, TRUE, UnsubscribeEmailSteps),
    Route("GET /api/email/stats", TRUE, FALSE, TRUE, GetEmailStatsSteps),
    Route("GET /api/email/subscriptions", TRUE, FALSE, TRUE, GetSubscriptionsSteps),
    Route("PUT /api/email/subscription/:id", TRUE, TRUE, TRUE, UpdateSubscriptionSteps),
    Route("DELETE /api/email/subscription/:id", TRUE, FALSE, TRUE, DeleteSubscriptionSteps),
    Route("GET /api/dashboard/overview", TRUE, FALSE, TRUE, OverviewSteps),
    Route("GET /api/dashboard/analytics", TRUE, FALSE, TRUE, AnalyticsSteps),
    Route("GET /api/health", FALSE, FALSE, FALSE, HealthSteps) }

RouteOf(name) == CHOOSE r \in RouteTable : r.name = name

\* The Authorization header of a request: none, one the auth step
\* rejects, one it accepts.
Credentials == {Absent, "forged", "valid"}
AdminIdentity == "admin-user"
Unauthorized == 401
ServerError == 500

Sent(code) == [code |-> code, parts |-> haccess]

\* A request arrives and enters the first middleware of its route.
Receive ==
  /\ hstage = "idle"
  /\ \E r \in RouteTable, c \in Credentials :
       /\ hroute' = r.name
       /\ hcred' = c
       /\ hstage' = IF r.auth THEN "auth" ELSE "handler"
       /\ hrest' = r.steps
  /\ hidentity' = NoIdentity
  /\ hsent' = <<>>
  /\ haccess' = 0
  /\ UNCHANGED <<svars, kvars, qvars>>

\* The auth step: it attaches the identity and calls the next step, or it
\* answers and the handler never runs.
Authenticate ==
  /\ hstage = "auth"
  /\ IF hcred = "valid"
     THEN /\ hidentity' = AdminIdentity
          /\ hstage' = "handler"
          /\ UNCHANGED hsent
     ELSE /\ hsent' = Append(hsent, [code |-> Unauthorized, parts |-> 0])
          /\ hstage' = "done"
          /\ UNCHANGED hidentity
  /\ UNCHANGED <<hroute, hcred, hrest, haccess, svars, kvars, qvars>>

\* The handler's next statement.  A rejected await throws: into the catch
\* block when the statement is inside try, out of the handler otherwise.
Step ==
  /\ hstage = "handler"
  /\ hrest # <<>>
  /\ LET st == Head(hrest)
     IN \/ /\ st.kind = "await"
           /\ hrest' = Tail(hrest)
           /\ haccess' = haccess + 1
           /\ UNCHANGED <<hstage, hsent>>
        \/ /\ st.kind = "await"
           /\ hstage' = IF RouteOf(hroute).inTry THEN "catch" ELSE "uncaught"
           /\ UNCHANGED <<hrest, hsent, haccess>>
        \/ /\ st.kind = "branch"
           /\ \/ hrest' = st.then \o Tail(hrest)
              \/ hrest' = Tail(hrest)
           /\ UNCHANGED <<hstage, hsent, haccess>>
        \/ /\ st.kind = "send"
           /\ hsent' = Append(hsent, Sent(st.code))
           /\ hrest' = Tail(hrest)
           /\ UNCHANGED <<hstage, haccess>>
        \/ /\ st.kind = "return"
           /\ hrest' = <<>>
           /\ UNCHANGED <<hstage, hsent, haccess>>
  /\ UNCHANGED <<hroute, hcred, hidentity, svars, kvars, qvars>>

\* catch (error) { res.status(500).json(...) }
Catch ==
  /\ hstage = "catch"
  /\ hsent' = Append(hsent, [code |-> ServerError, parts |-> 0])
  /\ hstage' = "done"
  /\ UNCHANGED <<hroute, hcred, hidentity, hrest, haccess, svars, kvars, qvars>>

\* The handler's function body ended.
Finished ==
  /\ hstage = "handler"
  /\ hrest = <<>>
  /\ hstage' = "done"
  /\ UNCHANGED <<hroute, hcred, hidentity, hrest, hsent, haccess, svars,
                 kvars, qvars>>

\* The connection closes; the next request may arrive.
Closed ==
  /\ hstage = "done"
  /\ hstage' = "idle"
  /\ UNCHANGED <<hroute, hcred, hidentity, hrest, hsent, haccess, svars,
                 kvars, qvars>>

NextPipeline == Receive \/ Authenticate \/ Step \/ Catch \/ Finished \/ Closed

SpecPipeline == Init /\ [][NextPipeline]_vars

\* ============================================================ list queries
\* getContacts and getSubscriptions: query-string parsing, filter, sort,
\* skip and limit, and the pagination block of the response.

\* The largest collection a list query reads.
MaxDocs == 25

\* Query-string values, character by character; <<>> is a missing one.
DigitChars == <<"0", "1", "2", "3", "4", "5", "6", "7", "8", "9">>
IsDigit(c) == \E k \in 1..10 : DigitChars[k] = c
DigitValue(c) == (CHOOSE k \in 1..10 : DigitChars[k] = c) - 1
NaN == [nan |-> TRUE, value |-> 0]
Number(n) == [nan |-> FALSE, value |-> n]

\* The digits at the front of s, read as a decimal number after acc.
RECURSIVE ParseDigits(_, _)
ParseDigits(s, acc) ==
  IF s = <<>> \/ ~IsDigit(Head(s)) THEN acc
  ELSE ParseDigits(Tail(s), 10 * acc + DigitValue(Head(s)))

\* parseInt: an optional sign, then the leading digits; NaN without one.
ParseInt(s) ==
  LET neg == s # <<>> /\ Head(s) = "-"
      rest == IF neg THEN Tail(s) ELSE s
  IN IF rest = <<>> \/ ~IsDigit(Head(rest)) THEN NaN
     ELSE Number(IF neg THEN 0 - ParseDigits(rest, 0) ELSE ParseDigits(rest, 0))

\* parseInt(x) || fallback: NaN and 0 are falsy.
OrDefault(n, fallback) == IF n.nan \/ n.value = 0 THEN fallback ELSE n.value
DefaultPage == 1
DefaultLimit == 10

PageInputs ==
  {<<>>, <<"0">>, <<"a", "b", "c">>, <<"1">>, <<"2">>, <<"3">>, <<"4">>,
   <<"3", ".", "7">>, <<"-", "2">>}
LimitInputs ==
  {<<>>, <<"0">>, <<"x">>, <<"1">>, <<"3">>, <<"1", "0">>, <<"2", "5">>,
   <<"1", "0", "p">>}
StatusFilters == {Absent, "new", "contacted", "active"}

\* Stored documents: n contacts, or n subscriptions, of mixed status and
\* stored in no particular order of date.
ContactDocs(n) ==
  [i \in 1..n |-> [id |-> i, createdAt |-> (i * 7) % (MaxDocs + 4),
                   status |-> IF i % 3 = 0 THEN "contacted" ELSE "new"]]
SubscriptionDocs(n) ==
  [i \in 1..n |-> [id |-> i, subscriptionDate |-> (i * 5) % (MaxDocs + 4),
                   status |-> IF i % 4 = 0 THEN "unsubscribed" ELSE "active"]]

ListQueries ==
  { [kind |-> k, size |-> n, page |-> p, limit |-> l, status |-> f] :
      k \in {"contacts", "subscriptions"}, n \in 0..MaxDocs, p \in PageInputs,
      l \in LimitInputs, f \in StatusFilters }

\* find(query): if (status) query.status = status
Matching(docs, status) ==
  {i \in 1..Len(docs) : status = Absent \/ docs[i].status = status}

\* sort({ field: -1 }): the matching documents, latest first.
RECURSIVE SortDescending(_, _, _)
SortDescending(docs, ids, field) ==
  IF ids = {} THEN <<>>
  ELSE LET top == CHOOSE i \in ids :
                    \A j \in ids : \/ docs[j][field] < docs[i][field]
                                   \/ docs[j][field] = docs[i][field] /\ i <= j
       IN <<docs[top]>> \o SortDescending(docs, ids \ {top}, field)

\* .limit(limit).skip(skip) on the sorted result.
SkipLimit(sorted, skip, limit) ==
  SubSeq(sorted, skip + 1,
         IF skip + limit < Len(sorted) THEN skip + limit ELSE Len(sorted))

\* Math.ceil(total / limit) for a positive limit.
\* Faulty variant: the quotient is rounded down.
PagesMutant(total, limit) == total \div limit
Pages(total, limit) == (total + limit - 1) \div limit

\* The handler from its query string to its response.  A negative skip is
\* rejected by the store and the catch block answers 500.
List(docs, q, field) ==
  LET page == OrDefault(ParseInt(q.page), DefaultPage)
      limit == OrDefault(ParseInt(q.limit), DefaultLimit)
      hit == Matching(docs, q.status)
      total == Cardinality(hit)
  IN IF (page - 1) * limit < 0 \/ limit < 0
     THEN [kind |-> "list", code |-> ServerError, data |-> <<>>,
           pagination |-> [current |-> 0, pages |-> 0, total |-> 0, limit |-> 0]]
     ELSE [kind |-> "list", code |-> 200,
           data |-> SkipLimit(SortDescending(docs, hit, field),
                              (page - 1) * limit, limit),
           pagination |-> [current |-> page, pages |-> Pages(total, limit),
                           total |-> total, limit |-> limit]]

InitList ==
  /\ SubscriptionInit /\ ContactInit /\ PipelineInit
  /\ query \in ListQueries
  /\ reply = NoReply

GetContacts ==
  /\ query.kind = "contacts" /\ reply = NoReply
  /\ reply' = List(ContactDocs(query.size), query, "createdAt")
  /\ UNCHANGED <<query, svars, kvars, hvars>>

GetSubscriptions ==
  /\ query.kind = "subscriptions" /\ reply = NoReply
  /\ reply' = List(SubscriptionDocs(query.size), query, "subscriptionDate")
  /\ UNCHANGED <<query, svars, kvars, hvars>>

NextList == GetContacts \/ GetSubscriptions

SpecList == InitList /\ [][NextList]_vars

\* ========================================================== derived rates
\* The virtuals engagementRate and clickRate of the EmailSubscription
\* schema, computed when a document is serialised for a response.

\* The largest counter value drawn.
MaxCount == 50

\* Math.round((a / b) * 100).  Math.round takes a tie upward, but the
\* double (a / b) * 100 can fall just below a tie (23 / 40 gives
\* 57.49999999999999), so at a tie either neighbour is possible.
\* Faulty variant: the fraction is cut off.
RoundPercentMutant(a, b) == {(100 * a) \div b}
RoundPercent(a, b) ==
  LET down == (100 * a) \div b
      twice == (200 * a) % (2 * b)
  IN IF twice < b THEN {down}
     ELSE IF twice > b THEN {down + 1}
     ELSE {down, down + 1}

\* virtual('engagementRate')
EngagementRate(doc) ==
  IF doc.emailsSent = 0 THEN {0}
  ELSE RoundPercent(doc.emailsOpened, doc.emailsSent)

\* virtual('clickRate')
ClickRate(doc) ==
  IF doc.emailsOpened = 0 THEN {0}
  ELSE RoundPercent(doc.emailsClicked, doc.emailsOpened)

Counters ==
  { [kind |-> "counters", emailsSent |-> a, emailsOpened |-> b,
     emailsClicked |-> c] : a \in 0..MaxCount, b \in 0..MaxCount,
                            c \in 0..MaxCount }

InitRates ==
  /\ SubscriptionInit /\ ContactInit /\ PipelineInit
  /\ query \in Counters
  /\ reply = NoReply

\* toJSON({ virtuals: true }) of a subscription with these counters.
Serialise ==
  /\ query.kind = "counters" /\ reply = NoReply
  /\ \E e \in EngagementRate(query), c \in ClickRate(query) :
       reply' = [kind |-> "rates", engagementRate |-> e, clickRate |-> c]
  /\ UNCHANGED <<query, svars, kvars, hvars>>

NextRates == Serialise

SpecRates == InitRates /\ [][NextRates]_vars

\* ============================================================= statistics
\* getContactStats, getEmailStats (with EmailSubscription.getStats) and the
\* counts of GET /api/dashboard/overview, on collections at rest.

\* The largest collection the statistics read.
MaxRows == 3

Seqs(S, n) == UNION {[1..k -> S] : k \in 0..n}

\* What the store holds of a document: the schema's paths, no virtuals.
ContactRows ==
  {[status |-> st, priority |-> "medium"] : st \in ContactStatusEnum}
  \cup {[status |-> "new", priority |-> "high"]}
SubscriptionRows ==
  {[status |-> st, source |-> DefaultSource, emailsSent |-> c[1],
    emailsOpened |-> c[2], emailsClicked |-> c[3]] :
     st \in StatusEnum, c \in {<<0, 0, 0>>, <<50, 10, 2>>}}
  \cup {[status |-> "active", source |-> "manual", emailsSent |-> 4,
         emailsOpened |-> 3, emailsClicked |-> 3]}

StatsQueries ==
  {[kind |-> "contactStats", contacts |-> c, subscriptions |-> <<>>] :
     c \in Seqs(ContactRows, MaxRows)}
  \cup {[kind |-> "emailStats", contacts |-> <<>>, subscriptions |-> e] :
          e \in Seqs(SubscriptionRows, MaxRows)}
  \cup {[kind |-> "overview", contacts |-> c, subscriptions |-> e] :
          c \in Seqs(ContactRows, MaxRows - 1),
          e \in Seqs(SubscriptionRows, MaxRows - 1)}

\* { $group: { _id: '$field', count: { $sum: 1 } } }: one pass over the
\* documents, a new group for a value not seen before.
\* Faulty variant: a group keeps the count of its first document.
RECURSIVE GroupMutant(_, _, _)
GroupMutant(docs, field, acc) ==
  IF docs = <<>> THEN acc
  ELSE LET v == Head(docs)[field]
           at == {k \in 1..Len(acc) : acc[k]._id = v}
       IN GroupMutant(Tail(docs), field,
                      IF at = {} THEN Append(acc, [_id |-> v, count |-> 1])
                      ELSE acc)
RECURSIVE Group(_, _, _)
Group(docs, field, acc) ==
  IF docs = <<>> THEN acc
  ELSE LET v == Head(docs)[field]
           at == {k \in 1..Len(acc) : acc[k]._id = v}
       IN Group(Tail(docs), field,
                IF at = {} THEN Append(acc, [_id |-> v, count |-> 1])
                ELSE [k \in 1..Len(acc) |->
                        IF k \in at THEN [acc[k] EXCEPT !.count = @ + 1]
                        ELSE acc[k]])

\* { $match: { field: value } } and countDocuments({ field: value })
RECURSIVE Match(_, _, _)
Match(docs, field, value) ==
  IF docs = <<>> THEN <<>>
  ELSE IF Head(docs)[field] = value
  THEN <<Head(docs)>> \o Match(Tail(docs), field, value)
  ELSE Match(Tail(docs), field, value)

\* { $sum: '$field' }: a document without the field adds nothing.
RECURSIVE Sum(_, _)
Sum(docs, field) ==
  IF docs = <<>> THEN 0
  ELSE (IF field \in DOMAIN Head(docs) THEN Head(docs)[field] ELSE 0)
       + Sum(Tail(docs), field)

\* A number of a response: a fraction, or JSON null.
Fraction(num, den) == [null |-> FALSE, num |-> num, den |-> den]
NullNumber == [null |-> TRUE, num |-> 0, den |-> 1]

\* { $avg: '$field' }: the mean over the documents that store the field,
\* as a fraction; null when none stores it.
Avg(docs, field) ==
  LET have == Match([k \in 1..Len(docs) |->
                       [has |-> field \in DOMAIN docs[k], doc |-> docs[k]]],
                    "has", TRUE)
  IN IF have = <<>> THEN NullNumber
     ELSE Fraction(Sum([k \in 1..Len(have) |-> have[k].doc], field), Len(have))

NoEngagement ==
  [totalEmailsSent |-> 0, totalEmailsOpened |-> 0, totalEmailsClicked |-> 0,
   avgEngagementRate |-> Fraction(0, 1)]

\* engagementStats[0] || { zeros }: the $group of the active subscriptions
\* yields no document when none matches.
Engagement(docs) ==
  LET active == Match(docs, "status", "active")
  IN IF active = <<>> THEN NoEngagement
     ELSE [totalEmailsSent |-> Sum(active, "emailsSent"),
           totalEmailsOpened |-> Sum(active, "emailsOpened"),
           totalEmailsClicked |-> Sum(active, "emailsClicked"),
           avgEngagementRate |-> Avg(active, "engagementRate")]

ContactCounts(docs) ==
  [total |-> Len(docs), byStatus |-> Group(docs, "status", <<>>),
   byPriority |-> Group(docs, "priority", <<>>)]

EmailCounts(docs) ==
  [total |-> Len(docs), active |-> Len(Match(docs, "status", "active")),
   byStatus |-> Group(docs, "status", <<>>),
   bySource |-> Group(docs, "source", <<>>)]

InitStats ==
  /\ SubscriptionInit /\ ContactInit /\ PipelineInit
  /\ query \in StatsQueries
  /\ reply = NoReply

GetContactStats ==
  /\ query.kind = "contactStats" /\ reply = NoReply
  /\ reply' = [kind |-> "contactStats", code |-> 200,
               data |-> ContactCounts(query.contacts)]
  /\ UNCHANGED <<query, svars, kvars, hvars>>

GetEmailStats ==
  /\ query.kind = "emailStats" /\ reply = NoReply
  /\ reply' = [kind |-> "emailStats", code |-> 200,
               data |-> [counts |-> EmailCounts(query.subscriptions),
                         engagement |-> Engagement(query.subscriptions)]]
  /\ UNCHANGED <<query, svars, kvars, hvars>>

Overview ==
  /\ query.kind = "overview" /\ reply = NoReply
  /\ reply' = [kind |-> "overview", code |-> 200,
               data |-> [contacts |-> ContactCounts(query.contacts),
                         emails |-> EmailCounts(query.subscriptions)]]
  /\ UNCHANGED <<query, svars, kvars, hvars>>

NextStats == GetContactStats \/ GetEmailStats \/ Overview

SpecStats == InitStats /\ [][NextStats]_vars

\* ========================================================== growth series
\* The growth block of GET /api/dashboard/overview and the period switch
\* of GET /api/dashboard/analytics.  Time is counted in hours from
\* 2023-12-01T00:00Z.

\* The largest Contact collection the growth series reads; the
\* subscription collection holds one document less.
MaxGrowthRows == 2

HoursPerDay == 24
At(day, hour) == (day - 1) * HoursPerDay + hour
\* The months from the origin on, with their lengths.
Months ==
  << [year |-> 2023, month |-> 12, days |-> 31],
     [year |-> 2024, month |-> 1, days |-> 31],
     [year |-> 2024, month |-> 2, days |-> 29] >>

\* { $year, $month, $dayOfMonth } of a date (UTC): offset days into the
\* k-th month and later.
RECURSIVE Civil(_, _)
Civil(offset, k) ==
  IF offset < Months[k].days
  THEN [year |-> Months[k].year, month |-> Months[k].month, day |-> offset + 1]
  ELSE Civil(offset - Months[k].days, k + 1)
DayOf(t) == Civil(t \div HoursPerDay, 1)

\* Date.now(): 15 or 16 January 2024, 10:00.
Nows == {At(46, 10), At(47, 10)}
\* createdAt of stored contacts: 16 December 09:00, 10:00, 23:00,
\* 17 December 12:00, 31 December, 1 January, 14 January.
Instants ==
  {At(16, 9), At(16, 10), At(16, 23), At(17, 12), At(31, 5), At(32, 5), At(45, 0)}
ContactDates == {[createdAt |-> t] : t \in Instants}
\* Subscriptions: created and never reactivated, or reactivated later.
SubscriptionDates ==
  { [createdAt |-> At(32, 5), subscriptionDate |-> At(32, 5)],
    [createdAt |-> At(16, 9), subscriptionDate |-> At(16, 9)],
    [createdAt |-> At(16, 9), subscriptionDate |-> At(45, 0)] }
PeriodInputs == {Absent, "7d", "1y", "2w"}

GrowthQueries ==
  { [kind |-> "growth", now |-> n, period |-> p, contacts |-> c,
     subscriptions |-> e] :
      n \in Nows, p \in PeriodInputs,
      c \in Seqs(ContactDates, MaxGrowthRows),
      e \in Seqs(SubscriptionDates, MaxGrowthRows - 1) }

\* Date.now() - days * 24 * 60 * 60 * 1000
DaysAgo(t, days) == t - days * HoursPerDay
GrowthDays == 30

\* GET /analytics: const { period = '30d' } = req.query and the switch.
DateRange(period, t) ==
  IF period = "7d" THEN DaysAgo(t, 7)
  ELSE IF period = "30d" THEN DaysAgo(t, 30)
  ELSE IF period = "90d" THEN DaysAgo(t, 90)
  ELSE IF period = "1y" THEN DaysAgo(t, 365)
  ELSE DaysAgo(t, 30)

\* { $match: { field: { $gte: since } } }
RECURSIVE MatchSince(_, _, _)
MatchSince(docs, field, since) ==
  IF docs = <<>> THEN <<>>
  ELSE IF Head(docs)[field] >= since
  THEN <<Head(docs)>> \o MatchSince(Tail(docs), field, since)
  ELSE MatchSince(Tail(docs), field, since)

\* { $group: { _id: { year, month, day }, count: { $sum: 1 } } }
RECURSIVE GroupByDay(_, _, _)
GroupByDay(docs, field, acc) ==
  IF docs = <<>> THEN acc
  ELSE LET v == DayOf(Head(docs)[field])
           at == {k \in 1..Len(acc) : acc[k]._id = v}
       IN GroupByDay(Tail(docs), field,
                     IF at = {} THEN Append(acc, [_id |-> v, count |-> 1])
                     ELSE [k \in 1..Len(acc) |->
                             IF k \in at THEN [acc[k] EXCEPT !.count = @ + 1]
                             ELSE acc[k]])

\* The order of { '_id.year': 1, '_id.month': 1, '_id.day': 1 }.
\* Faulty variant: the year is not a sort key.
DayBeforeMutant(a, b) ==
  \/ a.month < b.month
  \/ a.month = b.month /\ a.day < b.day
DayBefore(a, b) ==
  \/ a.year < b.year
  \/ a.year = b.year /\ a.month < b.month
  \/ a.year = b.year /\ a.month = b.month /\ a.day < b.day

\* { $sort: ... } on the groups.
RECURSIVE SortByDay(_)
SortByDay(groups) ==
  IF groups = <<>> THEN <<>>
  ELSE LET first == CHOOSE k \in 1..Len(groups) :
                      \A j \in 1..Len(groups) :
                        j = k \/ ~DayBefore(groups[j]._id, groups[k]._id)
       IN <<groups[first]>>
          \o SortByDay([k \in 1..(Len(groups) - 1) |->
                          IF k < first THEN groups[k] ELSE groups[k + 1]])

\* One growth aggregation: $match, $group, $sort.
Growth(docs, field, t) ==
  SortByDay(GroupByDay(MatchSince(docs, field, DaysAgo(t, GrowthDays)),
                       field, <<>>))

InitGrowth ==
  /\ SubscriptionInit /\ ContactInit /\ PipelineInit
  /\ query \in GrowthQueries
  /\ reply = NoReply

\* GET /overview: the growth block; req.query is never read.
OverviewGrowth ==
  /\ query.kind = "growth" /\ reply = NoReply
  /\ reply' = [kind |-> "growth", code |-> 200,
               contacts |-> Growth(query.contacts, "createdAt", query.now),
               emails |-> Growth(query.subscriptions, "subscriptionDate",
                                 query.now)]
  /\ UNCHANGED <<query, svars, kvars, hvars>>

NextGrowth == OverviewGrowth

SpecGrowth == InitGrowth /\ [][NextGrowth]_vars

\* ---------------------------------------------------------- contact claims
\* The stored contacts with the address of the last contact request.
SameEmail(store) ==
  {i \in DOMAIN store : store[i].email = Lower(NormalizeEmail(klast.req.email))}
ValidCreate == klast.req.op = "create" /\ ValidContact(klast.req)
WithinDay(store, t) == {i \in SameEmail(store) : store[i].createdAt >= t - DayHours}
OneContactStored ==
  /\ \E n \in DOMAIN contacts \ DOMAIN kprev :
       DOMAIN contacts = DOMAIN kprev \cup {n}
  /\ \A i \in DOMAIN kprev : contacts[i] = kprev[i]

\* C11: a contact submission for an email with a stored Contact created
\* within the 24 hours before it answers 409 and stores nothing; when every
\* stored Contact with that email is older than 24 hours (or there is
\* none), it answers 201 and exactly one new Contact is stored.
C11_DayWindow ==
  ValidCreate =>
    IF WithinDay(kprev, klast.time) # {}
    THEN klast.code = 409 /\ contacts = kprev
    ELSE klast.code = 201 /\ OneContactStored

IsPrefix(a, b) == Len(a) <= Len(b) /\ \A k \in 1..Len(a) : a[k] = b[k]
SystemNotes(doc) == {k \in 1..Len(doc.notes) : doc.notes[k].addedBy = SystemAuthor}

C14_InvalidRejected ==
  (\/ klast.req.op = "create" /\ ~ValidContact(klast.req)
   \/ klast.req.op = "update" /\ ~ValidContactUpdate(klast.req)) =>
    klast.code = 400 /\ contacts = kprev

\* --------------------------------------------------------- pipeline claims
CoreRoutes == {r.name : r \in {x \in RouteTable : x.name # "GET /api/health"}}
DashboardRoutes == {"GET /api/dashboard/overview", "GET /api/dashboard/analytics"}
StoreCalls(name) ==
  Cardinality({k \in 1..Len(RouteOf(name).steps) :
                 RouteOf(name).steps[k].kind = "await"})

\* C13: every handler of the contact, email and dashboard routes sends
\* exactly one response on every path (never two, never none once it
\* ended); a store call that fails at any step is answered with 500 and
\* never leaves the handler uncaught; a dashboard response is the complete
\* composition of all its queries or the single failure.
C13_OneResponse ==
  hroute \in CoreRoutes =>
    /\ Len(hsent) <= 1
    /\ hstage # "uncaught"
    /\ (hstage = "done" => Len(hsent) = 1)
    /\ (hstage = "catch" => hsent = <<>>)
    /\ (hstage = "done" /\ hidentity # NoIdentity /\ hroute \in DashboardRoutes =>
          \/ hsent = <<[code |-> 200, parts |-> StoreCalls(hroute)]>>
          \/ hsent = <<[code |-> ServerError, parts |-> 0]>>)

\* Reached: the overview handler answered 500 after some of its queries
\* had succeeded and a later one failed.
C13_Witness ==
  /\ hroute = "GET /api/dashboard/overview"
  /\ hstage = "done"
  /\ haccess > 0 /\ haccess < StoreCalls(hroute)
  /\ hsent = <<[code |-> ServerError, parts |-> 0]>>

AdminOps ==
  {"GET /api/contact", "GET /api/contact/:id", "PUT /api/contact/:id",
   "DELETE /api/contact/:id", "GET /api/contact/stats",
   "GET /api/email/subscriptions", "PUT /api/email/subscription/:id",
   "DELETE /api/email/subscription/:id", "GET /api/email/stats",
   "GET /api/dashboard/overview", "GET /api/dashboard/analytics"}
PublicOps ==
  {"POST /api/contact", "POST /api/email/subscribe", "POST /api/email/unsubscribe"}
HandlerStarted ==
  hstage \in {"handler", "catch", "uncaught"} \/ haccess > 0
    \/ (hroute # NoRoute /\ hrest # RouteOf(hroute).steps)

\* C15: an admin-only handler starts, and reads or changes documents, only
\* after the auth step ran and yielded an identity; a request the auth
\* step rejects is answered by it alone; and among the contact, email and
\* dashboard routes only contact submission, subscribe and unsubscribe
\* run without an identity.
C15_AuthFirst ==
  /\ (hroute \in AdminOps /\ HandlerStarted) =>
       hidentity = AdminIdentity /\ hcred = "valid"
  /\ (hroute \in AdminOps /\ hstage = "done" /\ hidentity = NoIdentity) =>
       hsent = <<[code |-> Unauthorized, parts |-> 0]>>
  /\ (hroute \in CoreRoutes /\ HandlerStarted /\ hidentity = NoIdentity) =>
       hroute \in PublicOps
  /\ CoreRoutes = AdminOps \cup PublicOps

\* Reached: an authenticated admin request is past its first store call.
C15_Witness ==
  /\ hroute = "DELETE /api/contact/:id"
  /\ hidentity = AdminIdentity
  /\ hstage = "handler"
  /\ haccess = 1

\* ------------------------------------------------------------- list claims
Listed == reply.kind = "list"
Stored == IF query.kind = "contacts" THEN ContactDocs(query.size)
          ELSE SubscriptionDocs(query.size)
\* T: the stored documents the query's filter selects.
MatchCount ==
  Cardinality({i \in 1..query.size :
                 query.status = Absent \/ Stored[i].status = query.status})
Min(a, b) == IF a < b THEN a ELSE b
Max(a, b) == IF a < b THEN b ELSE a
\* ceil(t / l): the least k with k * l >= t.
CeilDiv(t, l) == CHOOSE k \in 0..t : k * l >= t /\ \A j \in 0..(k - 1) : j * l < t
Unusable == {<<>>, <<"0">>, <<"a", "b", "c">>, <<"x">>}

\* C16: a list query matching T documents, with page P >= 1 and page size
\* L >= 1 (1 and 10 when the parameter is absent, zero or not a number),
\* answers success with exactly min(L, max(0, T - (P-1)*L)) documents,
\* pages = ceil(T/L) (0 when T = 0) and total = T; a page beyond the last
\* is an empty page.
C16_Pagination ==
  Listed =>
    LET P == IF query.page \in Unusable THEN 1 ELSE ParseInt(query.page).value
        L == IF query.limit \in Unusable THEN 10 ELSE ParseInt(query.limit).value
        T == MatchCount
    IN (P >= 1 /\ L >= 1) =>
         /\ reply.code = 200
         /\ reply.pagination.current = P
         /\ reply.pagination.limit = L
         /\ Len(reply.data) = Min(L, Max(0, T - (P - 1) * L))
         /\ reply.pagination.pages = CeilDiv(T, L)
         /\ reply.pagination.total = T
         /\ (T = 0 => reply.pagination.pages = 0)

\* Reached: 25 matching documents, page size 10, page 3: five documents
\* and three pages.
C16_Witness ==
  /\ Listed /\ MatchCount = 25
  /\ query.page = <<"3">> /\ query.limit = <<"1", "0">>
  /\ Len(reply.data) = 5 /\ reply.pagination.pages = 3

\* ------------------------------------------------------- statistics claims
Values(docs, field) == {docs[k][field] : k \in 1..Len(docs)}
Having(docs, field, v) == Cardinality({k \in 1..Len(docs) : docs[k][field] = v})
RECURSIVE Total(_)
Total(groups) ==
  IF groups = <<>> THEN 0 ELSE Head(groups).count + Total(Tail(groups))
\* One entry for exactly each status held, with its number of documents,
\* the counts adding up to the reported total.
ByStatusRight(counts, docs) ==
  /\ {counts.byStatus[k]._id : k \in 1..Len(counts.byStatus)} = Values(docs, "status")
  /\ Len(counts.byStatus) = Cardinality(Values(docs, "status"))
  /\ \A k \in 1..Len(counts.byStatus) :
       counts.byStatus[k].count = Having(docs, "status", counts.byStatus[k]._id)
  /\ Total(counts.byStatus) = counts.total
  /\ counts.total = Len(docs)

\* C17: in the contact stats, the email stats and the dashboard overview,
\* byStatus has one entry for exactly each status some stored document
\* holds, each count is the number of documents with that status, and the
\* counts sum to the reported total.
C17_ByStatus ==
  /\ reply.kind = "contactStats" => ByStatusRight(reply.data, query.contacts)
  /\ reply.kind = "emailStats" =>
       ByStatusRight(reply.data.counts, query.subscriptions)
  /\ reply.kind = "overview" =>
       /\ ByStatusRight(reply.data.contacts, query.contacts)
       /\ ByStatusRight(reply.data.emails, query.subscriptions)

\* Reached: contact stats over three contacts of two statuses.
C17_Witness ==
  /\ reply.kind = "contactStats"
  /\ Len(query.contacts) = 3
  /\ Len(reply.data.byStatus) = 2
  /\ \E k \in 1..2 : reply.data.byStatus[k].count = 2

ActiveRows == {k \in 1..Len(query.subscriptions) :
                 query.subscriptions[k].status = "active"}
RECURSIVE SumOver(_, _)
SumOver(rows, field) ==
  IF rows = {} THEN 0
  ELSE LET k == CHOOSE x \in rows : TRUE
       IN query.subscriptions[k][field] + SumOver(rows \ {k}, field)
RECURSIVE RateSums(_)
RateSums(rows) ==
  IF rows = {} THEN {0}
  ELSE LET k == CHOOSE x \in rows : TRUE
       IN {r + rest : r \in EngagementRate(query.subscriptions[k]),
                      rest \in RateSums(rows \ {k})}

\* C18: the engagement summary of the email stats reports, over the active
\* subscriptions, the sums of emailsSent, emailsOpened and emailsClicked
\* and the mean of their engagementRate; all four are 0 when there is no
\* active subscription, and none is ever null.
C18_EngagementSummary ==
  reply.kind = "emailStats" =>
    LET e == reply.data.engagement
    IN /\ e.totalEmailsSent = SumOver(ActiveRows, "emailsSent")
       /\ e.totalEmailsOpened = SumOver(ActiveRows, "emailsOpened")
       /\ e.totalEmailsClicked = SumOver(ActiveRows, "emailsClicked")
       /\ ~e.avgEngagementRate.null
       /\ IF ActiveRows = {} THEN e = NoEngagement
          ELSE /\ e.avgEngagementRate.den = Cardinality(ActiveRows)
               /\ e.avgEngagementRate.num \in RateSums(ActiveRows)

\* ------------------------------------------------------------- rate claims
\* n is an integer nearest to 100 * a / b.
Nearest(n, a, b) == 2 * (100 * a - n * b) <= b /\ 2 * (n * b - 100 * a) <= b

\* C19: for all non-negative counters engagementRate is 0 when emailsSent
\* is 0 and otherwise 100 * emailsOpened / emailsSent rounded to the
\* nearest integer (50 sent, 10 opened: 20); clickRate is the same over
\* emailsClicked and emailsOpened, 0 when emailsOpened is 0.
C19_Rates ==
  reply.kind = "rates" =>
    /\ IF query.emailsSent = 0 THEN reply.engagementRate = 0
       ELSE Nearest(reply.engagementRate, query.emailsOpened, query.emailsSent)
    /\ IF query.emailsOpened = 0 THEN reply.clickRate = 0
       ELSE Nearest(reply.clickRate, query.emailsClicked, query.emailsOpened)
    /\ (query.emailsSent = 50 /\ query.emailsOpened = 10 =>
          reply.engagementRate = 20)

\* Reached: 50 sent, 10 opened, 3 clicked: rates 20 and 30.
C19_Witness ==
  /\ reply.kind = "rates"
  /\ query.emailsSent = 50 /\ query.emailsOpened = 10 /\ query.emailsClicked = 3
  /\ reply.engagementRate = 20 /\ reply.clickRate = 30

\* ----------------------------------------------------------- growth claims
\* The times, among the given ones, inside the window that starts at since.
Inside(times, since) == {k \in DOMAIN times : times[k] >= since}
DayIndex(t) == t \div HoursPerDay
\* The series the window calls for: its days in chronological order, each
\* with the number of rows of that day inside the window.
SeriesFor(times, since) ==
  LET rows == Inside(times, since)
      days == {DayIndex(times[k]) : k \in rows}
      order == CHOOSE f \in [1..Cardinality(days) -> days] :
                 \A i, j \in 1..Cardinality(days) : i < j => f[i] < f[j]
  IN [i \in 1..Cardinality(days) |->
        [_id |-> Civil(order[i], 1),
         count |-> Cardinality({k \in rows : DayIndex(times[k]) = order[i]})]]
Field(docs, field) == [k \in 1..Len(docs) |-> docs[k][field]]

\* C20 as stated: the growth series of Contacts and of Subscriptions covers
\* the window the caller selected (7d, 30d, 90d, 1y; 30d otherwise): one
\* entry per calendar day with a row created inside it, that day's count,
\* in chronological order.
C20_SelectedWindow ==
  reply.kind = "growth" =>
    /\ reply.contacts = SeriesFor(Field(query.contacts, "createdAt"),
                                  DateRange(query.period, query.now))
    /\ reply.emails = SeriesFor(Field(query.subscriptions, "createdAt"),
                                DateRange(query.period, query.now))

\* C20: the growth series of the overview always covers the trailing 30
\* days, whatever period the caller names: one entry for exactly each UTC
\* calendar day on which a Contact was created, or a Subscription has its
\* subscriptionDate, inside the window, with the count of those rows, in
\* chronological order, the counts summing to the rows inside the window.
C20_GrowthSeries ==
  reply.kind = "growth" =>
    /\ reply.contacts = SeriesFor(Field(query.contacts, "createdAt"),
                                  query.now - 30 * HoursPerDay)
    /\ reply.emails = SeriesFor(Field(query.subscriptions, "subscriptionDate"),
                                query.now - 30 * HoursPerDay)
    /\ Total(reply.contacts)
         = Cardinality(Inside(Field(query.contacts, "createdAt"),
                              query.now - 30 * HoursPerDay))

\* Reached: a seven-day period is named, and the series runs from
\* 31 December to 1 January.
C20_Witness ==
  /\ reply.kind = "growth"
  /\ query.period = "7d"
  /\ Len(reply.contacts) = 2
  /\ reply.contacts[1]._id = [year |-> 2023, month |-> 12, day |-> 31]
  /\ reply.contacts[2]._id = [year |-> 2024, month |-> 1, day |-> 1]

\* --------------------------------------------- subscription field claims
\* The subscriptions the last request turned from a non-active status to
\* active.
Activated ==
  {i \in DOMAIN subs \cap DOMAIN prev :
     prev[i].status # "active" /\ subs[i].status = "active"}

\* C21: whenever a stored subscription's status changes from a non-active
\* value to active, by subscribe or by an admin update with status=active,
\* its unsubscriptionDate and unsubscriptionReason are null afterwards.
C21_ActivationClears ==
  \A i \in Activated :
    /\ subs[i].unsubscriptionDate = NullDate
    /\ subs[i].unsubscriptionReason = NullString

\* C22: every stored subscription with isVerified=true has a non-null
\* verifiedAt, and a verifiedAt that is set is left as it is by every
\* later subscribe (reactivation included), unsubscribe and admin update.
C22_VerifiedOnce ==
  /\ \A i \in DOMAIN subs :
       subs[i].isVerified => subs[i].verifiedAt # NullDate
  /\ \A i \in DOMAIN subs \cap DOMAIN prev :
       prev[i].verifiedAt # NullDate => subs[i].verifiedAt = prev[i].verifiedAt

\* Reached: a subscription verified at its creation was reactivated later.
C22_Witness ==
  /\ last.req.op = "subscribe" /\ last.msg = "reactivated"
  /\ \E i \in Activated :
       /\ subs[i].isVerified
       /\ subs[i].verifiedAt # NullDate
       /\ subs[i].verifiedAt < subs[i].subscriptionDate

\* ------------------------------------------- concurrent contact claims
\* C23: under any interleaving of concurrent contact submissions, no two
\* stored Contacts with the same email have creation times less than 24
\* hours apart.
C23_DayApart ==
  \A i, j \in DOMAIN contacts :
    (i # j /\ contacts[i].email = contacts[j].email) =>
      \/ contacts[i].createdAt - contacts[j].createdAt >= DayHours
      \/ contacts[j].createdAt - contacts[i].createdAt >= DayHours

\* C24: under any interleaving of subscribe, unsubscribe and admin update
\* requests on one subscription, each saving only the fields it changed
\* relative to what it read, every stored subscription with status
\* unsubscribed has an unsubscriptionDate.
C24_RaceKeepsDate ==
  \A i \in DOMAIN subs :
    subs[i].status = "unsubscribed" => subs[i].unsubscriptionDate # NullDate

====
